---- MODULE Spec2Model ----
(***************************************************************************)
(* The Avellaneda-Stoikov live market maker of                             *)
(* Market_Making/Avellaneda-Stoikov/av_binance_live.py: the OrderBook, the *)
(* AvellanedaStoikovMM quote engine and ledger, and the LiveMarketMaker    *)
(* handlers and threads.                                                   *)
(*                                                                         *)
(* Numbers.  The program computes in floating point; the model computes    *)
(* the same expressions exactly, in fixed units:                           *)
(*   prices, spreads      1/PriceScale            (half a millionth)       *)
(*   sizes, inventory     whole units                                      *)
(*   cash, mark-to-market price unit * size unit                           *)
(*   sigma, gamma, k      tenths                                           *)
(*   times (days)         thousandths of a day                             *)
(* With these units (2q+1)*gamma*sigma^2*t/2 is the integer                *)
(* (2q+1)*gamma*sigma*sigma*t, with no division.                           *)
(***************************************************************************)
EXTENDS Integers, Sequences, FiniteSets, TLC

VARIABLES
    \* OrderBook
    bids, asks, last_update_time,
    \* AvellanedaStoikovMM
    params, cash, inventory, current_bid_price, current_ask_price,
    trading_history, pnl_history, inventory_history, mid_price_history,
    quote_history,
    \* LiveMarketMaker
    running, recent_trades, simulated_trades, last_bid_hit, last_ask_lift,
    \* the threads start() and __init__ run: the depth messages received so far,
    \* where each stream's thread is and its handler's locals, where the display
    \* thread is and what it has printed, where the main thread is
    received, ws_pc, ws_local, disp_pc, shown, main_pc,
    \* the wall clock (time.time() since start_time), thousandths of a day
    now,
    \* the last method a driver called, with its arguments, and what it returned
    call, ret

bookVars == <<bids, asks, last_update_time>>

ledgerVars == <<cash, inventory, trading_history>>

metricVars == <<pnl_history, inventory_history, mid_price_history, quote_history>>

quoteVars == <<current_bid_price, current_ask_price>>

liveVars ==
    <<running, recent_trades, simulated_trades, last_bid_hit, last_ask_lift,
      received, ws_pc, ws_local, disp_pc, shown, main_pc>>

vars == <<bookVars, params, ledgerVars, metricVars, quoteVars, liveVars, now, call, ret>>

----------------------------------------------------------------------------
(* Units and bounds *)

\* model units per 1.0 of price
PriceScale == 2 * 1000000

\* a price given in hundredths
Cents(n) == n * (PriceScale \div 100)

\* float('inf'), the suppressed-ask value
Inf == 2147483647

\* Python's None (the quotes before the first refresh)
None == -2147483647

\* a str (a parameter passed as text: __init__ stores it as given)
Text == -2147483646

\* the deques' maxlen as modelled (1000, 100 and 20 in the program)
DequeMaxLen == 2

\* most levels one update call of the book driver carries
MaxLevels == 2

\* largest inventory, in absolute value, the risk model is evaluated at
MaxQ == 6

\* most fills one run records
MaxTrades == 3

\* largest Poisson count drawn
MaxPoisson == 2

\* the depth messages a run receives
MaxTicks == 2

----------------------------------------------------------------------------
(* Python built-ins *)

Max2(a, b) == IF a >= b THEN a ELSE b

Min2(a, b) == IF a <= b THEN a ELSE b

RECURSIVE SetMax(_)
\* max(iterable): the running maximum over the elements
SetMax(S) ==
    IF S = {} THEN 0
    ELSE LET x == CHOOSE x \in S : TRUE
             rest == S \ {x}
         IN IF rest = {} THEN x ELSE Max2(x, SetMax(rest))

RECURSIVE SetMin(_)
\* min(iterable): the running minimum over the elements
SetMin(S) ==
    IF S = {} THEN 0
    ELSE LET x == CHOOSE x \in S : TRUE
             rest == S \ {x}
         IN IF rest = {} THEN x ELSE Min2(x, SetMin(rest))

\* round(x, ndigits) on a grid of g units: to the nearest multiple of g, a tie to
\* the even multiple
RoundTo(x, g) ==
    LET q == x \div g
        r == x - q * g
    IN IF 2 * r < g THEN q * g
       ELSE IF 2 * r > g THEN (q + 1) * g
       ELSE IF q % 2 = 0 THEN q * g ELSE (q + 1) * g

\* deque(maxlen=n).append(x)
DequeAppend(d, x, n) ==
    IF Len(d) < n THEN Append(d, x) ELSE Append(Tail(d), x)

\* q[-1]
Last(q) == q[Len(q)]

\* truthiness of a number-or-None: None and 0 are false
Truthy(x) == x # None /\ x # 0

----------------------------------------------------------------------------
(* OrderBook: a side is a function price -> size on the prices present *)

\* update_level with sizes added to the resting size instead of replacing it
update_level_accumulating(side, level) ==
    LET price == level[1]
        size == level[2]
    IN IF size > 0
       THEN [q \in (DOMAIN side) \cup {price} |->
                IF q = price
                THEN (IF q \in DOMAIN side THEN side[q] + size ELSE size)
                ELSE side[q]]
       ELSE [q \in (DOMAIN side) \ {price} |-> side[q]]

\* one [price, size] level applied to one side: size > 0 sets it, otherwise pop
update_level(side, level) ==
    LET price == level[1]
        size == level[2]
    IN IF size > 0
       THEN [q \in (DOMAIN side) \cup {price} |-> IF q = price THEN size ELSE side[q]]
       ELSE [q \in (DOMAIN side) \ {price} |-> side[q]]

RECURSIVE update_side(_, _)
\* the for-loop over one side's levels, in order
update_side(side, levels) ==
    IF levels = <<>> THEN side
    ELSE update_side(update_level(side, Head(levels)), Tail(levels))

\* update with the two loops reading each other's list
update_swapped(self, bid_levels, ask_levels, t) ==
    [self EXCEPT !.bids = update_side(self.bids, ask_levels),
                 !.asks = update_side(self.asks, bid_levels),
                 !.last_update_time = t]

\* OrderBook.update
update(self, bid_levels, ask_levels, t) ==
    [self EXCEPT !.bids = update_side(self.bids, bid_levels),
                 !.asks = update_side(self.asks, ask_levels),
                 !.last_update_time = t]

\* the guard written with `and`: only a book empty on both sides is no market
no_market_both_empty(b, a) == DOMAIN b = {} /\ DOMAIN a = {}

\* the guard `not self.bids or not self.asks`
no_market(b, a) == DOMAIN b = {} \/ DOMAIN a = {}

\* max()/min() of an empty key view raises ValueError
best_raises(b, a) == ~no_market(b, a) /\ (DOMAIN b = {} \/ DOMAIN a = {})

\* OrderBook.get_mid_price
get_mid_price(b, a) ==
    IF no_market(b, a) THEN 0
    ELSE (SetMax(DOMAIN b) + SetMin(DOMAIN a)) \div 2

\* OrderBook.get_best_bid_ask
get_best_bid_ask(b, a) ==
    IF no_market(b, a) THEN <<0, 0>>
    ELSE <<SetMax(DOMAIN b), SetMin(DOMAIN a)>>

----------------------------------------------------------------------------
(* AvellanedaStoikovMM: the risk model *)

\* np.log(1 + gamma/k) / gamma in price units, to the nearest unit
LogTerm(gamma, k) ==
    CASE gamma = 1 /\ k = 15 -> 1290770
      [] gamma = 1 /\ k = 200 -> 99751
      [] gamma = 2 /\ k = 15 -> 1251631
      [] gamma = 1 /\ k = 4000 -> 4999

\* optimal_bid_spread with the ask's inventory factor
optimal_bid_spread_as_ask(self, q, remaining_time, sigma) ==
    (1 - 2 * q) * self.params.gamma * sigma * sigma * remaining_time
        + LogTerm(self.params.gamma, self.params.k)

\* optimal_bid_spread
optimal_bid_spread(self, q, remaining_time, sigma) ==
    (2 * q + 1) * self.params.gamma * sigma * sigma * remaining_time
        + LogTerm(self.params.gamma, self.params.k)

\* optimal_ask_spread with the inventory counted once
optimal_ask_spread_single(self, q, remaining_time, sigma) ==
    (1 - q) * self.params.gamma * sigma * sigma * remaining_time
        + LogTerm(self.params.gamma, self.params.k)

\* optimal_ask_spread
optimal_ask_spread(self, q, remaining_time, sigma) ==
    (1 - 2 * q) * self.params.gamma * sigma * sigma * remaining_time
        + LogTerm(self.params.gamma, self.params.k)

----------------------------------------------------------------------------
(* AvellanedaStoikovMM: the quote engine *)

\* the bid checks with the suppression threshold exclusive
constrain_bid_strict(self, mid_price, bid_price) ==
    LET max_inventory == self.params.max_inventory
    IN IF 10 * self.inventory > 8 * max_inventory THEN 0
       ELSE IF 2 * self.inventory >= max_inventory
       THEN mid_price - ((mid_price - bid_price) * max_inventory)
                            \div (max_inventory - self.inventory)
       ELSE bid_price

\* the bid's inventory_factor with the operands of the difference swapped
bid_inventory_factor_swapped(self) ==
    <<self.inventory - self.params.max_inventory, self.params.max_inventory>>

\* inventory_factor of the bid branch (line 132), as <<numerator, denominator>>
bid_inventory_factor(self) ==
    <<self.params.max_inventory - self.inventory, self.params.max_inventory>>

\* inventory_factor of the ask branch (line 140), as <<numerator, denominator>>
ask_inventory_factor(self) ==
    <<self.params.max_inventory + self.inventory, self.params.max_inventory>>

\* the bid after the inventory checks (lines 129-134); a quotient is cut to the
\* model's resolution
constrain_bid(self, mid_price, bid_price) ==
    LET max_inventory == self.params.max_inventory
        inventory_factor == bid_inventory_factor(self)
    IN IF 10 * self.inventory >= 8 * max_inventory THEN 0
       ELSE IF 2 * self.inventory >= max_inventory
       THEN mid_price - ((mid_price - bid_price) * inventory_factor[2])
                            \div inventory_factor[1]
       ELSE bid_price

\* the ask checks with the distance multiplied by inventory_factor
constrain_ask_toward_mid(self, mid_price, ask_price) ==
    LET max_inventory == self.params.max_inventory
    IN IF 10 * self.inventory <= -8 * max_inventory THEN Inf
       ELSE IF 2 * self.inventory <= -max_inventory
       THEN mid_price + ((ask_price - mid_price) * (max_inventory + self.inventory))
                            \div max_inventory
       ELSE ask_price

\* the ask after the inventory checks (lines 137-142)
constrain_ask(self, mid_price, ask_price) ==
    LET max_inventory == self.params.max_inventory
        inventory_factor == ask_inventory_factor(self)
    IN IF 10 * self.inventory <= -8 * max_inventory THEN Inf
       ELSE IF 2 * self.inventory <= -max_inventory
       THEN mid_price + ((ask_price - mid_price) * inventory_factor[2])
                            \div inventory_factor[1]
       ELSE ask_price

\* apply_inventory_constraints
apply_inventory_constraints(self, bid_price, ask_price) ==
    LET mid_price == get_mid_price(self.bids, self.asks)
    IN <<constrain_bid(self, mid_price, bid_price),
         constrain_ask(self, mid_price, ask_price)>>

\* mid_price * self.min_spread_pct
min_spread_of(self, mid_price) ==
    (mid_price * self.params.min_spread_pct[1]) \div self.params.min_spread_pct[2]

\* the minimum-spread floor (lines 170-174)
ensure_min_spread(self, mid_price, quotes) ==
    LET min_spread == min_spread_of(self, mid_price)
        bid_price == quotes[1]
        ask_price == quotes[2]
    IN IF 0 < bid_price /\ bid_price < Inf /\ 0 < ask_price /\ ask_price < Inf
          /\ ask_price - bid_price < min_spread
       THEN <<mid_price - min_spread \div 2, mid_price + min_spread \div 2>>
       ELSE quotes

\* the number of decimals quotes are rounded to (lines 177-183)
decimals_for(mid_price) ==
    IF mid_price < 1 * PriceScale THEN 6
    ELSE IF mid_price < 10 * PriceScale THEN 4
    ELSE IF mid_price < 100 * PriceScale THEN 3
    ELSE 2

\* price units in 10^-decimals
Grid(decimals) ==
    CASE decimals = 2 -> PriceScale \div 100
      [] decimals = 3 -> PriceScale \div 1000
      [] decimals = 4 -> PriceScale \div 10000
      [] decimals = 6 -> PriceScale \div 1000000

\* the precision rounding (lines 185-188)
round_quotes(mid_price, quotes) ==
    LET g == Grid(decimals_for(mid_price))
    IN <<IF quotes[1] > 0 THEN RoundTo(quotes[1], g) ELSE quotes[1],
         IF quotes[2] < Inf THEN RoundTo(quotes[2], g) ELSE quotes[2]>>

\* calculate_optimal_quotes from the raw prices on (lines 166-190)
finish_quotes(self, mid_price, bid_price, ask_price) ==
    round_quotes(mid_price,
        ensure_min_spread(self, mid_price,
            apply_inventory_constraints(self, bid_price, ask_price)))

\* max(0.001, self.T - elapsed_days)
remaining_time_at(self, t) == Max2(1, self.params.T - t)

\* calculate_optimal_quotes, called at time t
calculate_optimal_quotes(self, t) ==
    LET remaining_time == remaining_time_at(self, t)
        mid_price == get_mid_price(self.bids, self.asks)
        bid_spread == optimal_bid_spread(self, self.inventory, remaining_time,
                                         self.params.sigma)
        ask_spread == optimal_ask_spread(self, self.inventory, remaining_time,
                                         self.params.sigma)
    IN IF mid_price = 0 THEN <<0, 0>>
       ELSE finish_quotes(self, mid_price, mid_price - bid_spread,
                          mid_price + ask_spread)

----------------------------------------------------------------------------
(* AvellanedaStoikovMM: the ledger *)

\* the sample written back: cash set to the mark-to-market value
update_pnl_and_metrics_marking(self, mid_price) ==
    [self EXCEPT !.cash = @ + self.inventory * mid_price]

\* update_pnl_and_metrics
update_pnl_and_metrics(self, mid_price) ==
    LET mark_to_market == self.cash + self.inventory * mid_price
    IN [self EXCEPT
          !.mid_price_history = DequeAppend(@, mid_price, DequeMaxLen),
          !.pnl_history = DequeAppend(@, mark_to_market, DequeMaxLen),
          !.inventory_history = DequeAppend(@, self.inventory, DequeMaxLen),
          !.quote_history =
              IF Truthy(self.current_bid_price) /\ Truthy(self.current_ask_price)
              THEN DequeAppend(@, [mid_price |-> mid_price,
                                   bid_price |-> self.current_bid_price,
                                   ask_price |-> self.current_ask_price,
                                   inventory |-> self.inventory,
                                   pnl |-> mark_to_market], DequeMaxLen)
              ELSE @]

\* record_trade, lines 217-226: the record appended before the ledger moves
append_trade(self, side, price, size, mid_price) ==
    [self EXCEPT !.trading_history =
        Append(@, [side |-> side, price |-> price, size |-> size,
                   mid_price |-> mid_price, trade_type |-> "Maker",
                   inventory_after |-> self.inventory,
                   cash_after |-> self.cash])]

\* the inventory statement with a sell adding too
apply_inventory_always_add(self, side, size) ==
    [self EXCEPT !.inventory = @ + size]

\* record_trade, lines 232 and 235: the inventory statement
apply_inventory(self, side, size) ==
    [self EXCEPT !.inventory = IF side = "buy" THEN @ + size ELSE @ - size]

\* the cash statement with a sell debited too
apply_cash_always_debit(self, side, price, size) ==
    [self EXCEPT !.cash = @ - price * size]

\* record_trade, lines 233 and 236: the cash statement
apply_cash(self, side, price, size) ==
    [self EXCEPT !.cash = IF side = "buy" THEN @ - price * size ELSE @ + price * size]

\* record_trade
record_trade(self, side, price, size) ==
    LET mid_price == get_mid_price(self.bids, self.asks)
    IN update_pnl_and_metrics(
           apply_cash(
               apply_inventory(append_trade(self, side, price, size, mid_price),
                               side, size),
               side, price, size),
           mid_price)

----------------------------------------------------------------------------
(* The objects as records, so that a handler composes the methods it calls *)

\* the AvellanedaStoikovMM instance (with its OrderBook) in the current state
Self ==
    [bids |-> bids, asks |-> asks, last_update_time |-> last_update_time,
     params |-> params, cash |-> cash, inventory |-> inventory,
     current_bid_price |-> current_bid_price,
     current_ask_price |-> current_ask_price,
     trading_history |-> trading_history, pnl_history |-> pnl_history,
     inventory_history |-> inventory_history,
     mid_price_history |-> mid_price_history, quote_history |-> quote_history]

\* the instance becomes s
Become(s) ==
    /\ bids' = s.bids
    /\ asks' = s.asks
    /\ last_update_time' = s.last_update_time
    /\ params' = s.params
    /\ cash' = s.cash
    /\ inventory' = s.inventory
    /\ current_bid_price' = s.current_bid_price
    /\ current_ask_price' = s.current_ask_price
    /\ trading_history' = s.trading_history
    /\ pnl_history' = s.pnl_history
    /\ inventory_history' = s.inventory_history
    /\ mid_price_history' = s.mid_price_history
    /\ quote_history' = s.quote_history

\* the empty dict
EmptyDict == [q \in {} |-> 0]

\* AvellanedaStoikovMM.__init__ with the parameters p
NewMarketMaker(p) ==
    [bids |-> EmptyDict, asks |-> EmptyDict, last_update_time |-> None,
     params |-> p, cash |-> p.initial_cash, inventory |-> p.initial_inventory,
     current_bid_price |-> None, current_ask_price |-> None,
     trading_history |-> <<>>, pnl_history |-> <<>>,
     inventory_history |-> <<>>, mid_price_history |-> <<>>,
     quote_history |-> <<>>]

\* start, lines 499-506: the two streams, a thread each
Streams == {"OrderBook", "Trades"}

\* the handler's locals outside a tick
NoLocals ==
    [side |-> "", bid_price |-> 0, ask_price |-> 0, mid_price |-> 0,
     bid_hit |-> 0, ask_lift |-> 0]

\* the terminal after os.system('clear')
Cleared ==
    [mid_price |-> None, bid_price |-> None, ask_price |-> None,
     inventory |-> None, cash |-> None, pnl |-> None, trades |-> None]

\* LiveMarketMaker.__init__ after the market maker is built
NewLive ==
    /\ running = TRUE
    /\ recent_trades = <<>>
    /\ simulated_trades = <<>>
    /\ last_bid_hit = 0
    /\ last_ask_lift = 0
    /\ received = 0
    /\ ws_pc = [t \in Streams |-> "wait"]
    /\ ws_local = [t \in Streams |-> NoLocals]
    /\ disp_pc = "sleep"
    /\ shown = Cleared
    /\ main_pc = "run"

\* the instance in the initial state is s
Is(s) ==
    /\ bids = s.bids
    /\ asks = s.asks
    /\ last_update_time = s.last_update_time
    /\ params = s.params
    /\ cash = s.cash
    /\ inventory = s.inventory
    /\ current_bid_price = s.current_bid_price
    /\ current_ask_price = s.current_ask_price
    /\ trading_history = s.trading_history
    /\ pnl_history = s.pnl_history
    /\ inventory_history = s.inventory_history
    /\ mid_price_history = s.mid_price_history
    /\ quote_history = s.quote_history

\* the __main__ parameters, with whole-unit sizes (order_size 1) and
\* initial_cash 100 so that cash stays in range
BaseParams ==
    [sigma |-> 4, gamma |-> 1, k |-> 15, c |-> 1, T |-> 1000,
     initial_cash |-> Cents(10000), initial_inventory |-> 0,
     max_inventory |-> 5, order_size |-> 1, min_spread_pct |-> <<1, 1000>>]

\* the instants the clock is read at (elapsed thousandths of a day)
ClockTimes == {0, 1000}

\* the wall clock advances between two calls
Elapse ==
    /\ \E t \in ClockTimes : t > now /\ now' = t
    /\ UNCHANGED <<bookVars, params, ledgerVars, metricVars, quoteVars, liveVars, call, ret>>

\* a call that returned v
Returned(v) == [exc |-> "", val |-> v]

\* a call that raised e
Raised(e) == [exc |-> e, val |-> 0]

\* all sequences over S of length at most n
SeqsUpTo(S, n) == UNION {[1..m -> S] : m \in 0..n}

----------------------------------------------------------------------------
(* SpecBook: the OrderBook driven by arbitrary calls *)

\* the levels a driver passes: two bid prices, two ask prices, sizes that set,
\* replace and remove
BookBidLevels ==
    {<<Cents(9999), 0>>, <<Cents(9999), 1>>, <<Cents(9999), 2>>,
     <<Cents(10000), 0>>, <<Cents(10000), 1>>}

BookAskLevels == {<<Cents(10001), -1>>, <<Cents(10001), 1>>, <<Cents(10003), 1>>}

\* the (bids, asks) arguments of update: at most MaxLevels levels in all
BookUpdates ==
    {m \in SeqsUpTo(BookBidLevels, MaxLevels) \X SeqsUpTo(BookAskLevels, MaxLevels) :
        Len(m[1]) + Len(m[2]) <= MaxLevels}

InitBook ==
    /\ Is(NewMarketMaker(BaseParams))
    /\ NewLive
    /\ now = 0
    /\ call = [op |-> "__init__", args |-> <<>>]
    /\ ret = Returned(0)

BookUpdate ==
    \E m \in BookUpdates :
        /\ Become(update(Self, m[1], m[2], now))
        /\ call' = [op |-> "update", args |-> m]
        /\ ret' = Returned(0)
        /\ UNCHANGED <<liveVars, now>>

BookGetMidPrice ==
    /\ call' = [op |-> "get_mid_price", args |-> <<>>]
    /\ ret' = IF best_raises(bids, asks) THEN Raised("ValueError")
              ELSE Returned(get_mid_price(bids, asks))
    /\ UNCHANGED <<bookVars, params, ledgerVars, metricVars, quoteVars, liveVars, now>>

BookGetBestBidAsk ==
    /\ call' = [op |-> "get_best_bid_ask", args |-> <<>>]
    /\ ret' = IF best_raises(bids, asks) THEN Raised("ValueError")
              ELSE Returned(get_best_bid_ask(bids, asks))
    /\ UNCHANGED <<bookVars, params, ledgerVars, metricVars, quoteVars, liveVars, now>>

NextBook == BookUpdate \/ BookGetMidPrice \/ BookGetBestBidAsk

SpecBook == InitBook /\ [][NextBook]_vars

----------------------------------------------------------------------------
(* SpecSpread: the risk model's two formulas evaluated at arbitrary arguments *)

\* gamma and k of the instance the formulas are evaluated on
SpreadParams ==
    {BaseParams, [BaseParams EXCEPT !.k = 200], [BaseParams EXCEPT !.gamma = 2]}

SpreadSigmas == {3, 4}

SpreadTimes == {1, 500, 1000}

InitSpread ==
    /\ \E p \in SpreadParams : Is(NewMarketMaker(p))
    /\ NewLive
    /\ now = 0
    /\ call = [op |-> "__init__", args |-> <<>>]
    /\ ret = Returned(0)

SpreadBid ==
    \E q \in -MaxQ..MaxQ, t \in SpreadTimes, sg \in SpreadSigmas :
        /\ call' = [op |-> "optimal_bid_spread", args |-> <<q, t, sg>>]
        /\ ret' = Returned(optimal_bid_spread(Self, q, t, sg))
        /\ UNCHANGED <<bookVars, params, ledgerVars, metricVars, quoteVars, liveVars, now>>

SpreadAsk ==
    \E q \in -MaxQ..MaxQ, t \in SpreadTimes, sg \in SpreadSigmas :
        /\ call' = [op |-> "optimal_ask_spread", args |-> <<q, t, sg>>]
        /\ ret' = Returned(optimal_ask_spread(Self, q, t, sg))
        /\ UNCHANGED <<bookVars, params, ledgerVars, metricVars, quoteVars, liveVars, now>>

NextSpread == SpreadBid \/ SpreadAsk

SpecSpread == InitSpread /\ [][NextSpread]_vars

----------------------------------------------------------------------------
(* SpecLedger: the ledger driven by arbitrary fills and marks *)

LedgerParams == {BaseParams, [BaseParams EXCEPT !.initial_inventory = 2]}

LedgerPrices == {Cents(10000), Cents(10100)}

LedgerSizes == {1, 2}

MarkPrices == {0, Cents(9900), Cents(10100)}

InitLedger ==
    /\ \E p \in LedgerParams : Is(NewMarketMaker(p))
    /\ NewLive
    /\ now = 0
    /\ call = [op |-> "__init__", args |-> <<>>]
    /\ ret = Returned(0)

LedgerRecordTrade ==
    \E side \in {"buy", "sell"}, price \in LedgerPrices, size \in LedgerSizes :
        /\ Len(trading_history) < MaxTrades
        /\ Become(record_trade(Self, side, price, size))
        /\ call' = [op |-> "record_trade", args |-> <<side, price, size>>]
        /\ ret' = Returned(0)
        /\ UNCHANGED <<liveVars, now>>

LedgerUpdatePnl ==
    \E mid_price \in MarkPrices :
        /\ Become(update_pnl_and_metrics(Self, mid_price))
        /\ call' = [op |-> "update_pnl_and_metrics", args |-> <<mid_price>>]
        /\ ret' = Returned(0)
        /\ UNCHANGED <<liveVars, now>>

NextLedger == LedgerRecordTrade \/ LedgerUpdatePnl

SpecLedger == InitLedger /\ [][NextLedger]_vars

----------------------------------------------------------------------------
(* SpecQuote: the quote engine driven at arbitrary inventories, books, *)
(* parameters and times                                                *)

\* the instances: k and min_spread_pct vary, the inventory is any in range
QuoteParams ==
    {[BaseParams EXCEPT !.k = kk, !.min_spread_pct = pct, !.initial_inventory = q,
                        !.max_inventory = m] :
        kk \in {15, 200}, pct \in {<<1, 1000>>, <<2, 100>>}, q \in -MaxQ..MaxQ,
        m \in {4, 5}}

\* the best bid and ask the book is set to: mids 0.50, 5.00, 50.00, 100.00 and
\* 109.995, one for each rounding precision and one off the rounding grid
QuoteBooks ==
    <<<<Cents(49), Cents(51)>>, <<Cents(499), Cents(501)>>,
      <<Cents(4999), Cents(5001)>>, <<Cents(9999), Cents(10001)>>,
      <<Cents(10999), Cents(11000)>>>>

\* the depth lists that leave exactly the i-th pair in the book (no bid for
\* i = 0): every other price comes with size 0
QuoteBookLevels(i, side) ==
    [j \in 1..Len(QuoteBooks) |->
        <<QuoteBooks[j][side],
          IF j = i \/ (i = 0 /\ side = 2 /\ j = 1) THEN 1 ELSE 0>>]

\* the (bid, ask) distances from mid a risk model may return: inside the
\* floor, skewed past mid on either side, wider than the price itself, and
\* (a long inventory at a low price) both quotes skewed down to around zero
RawSpreads ==
    {<<Cents(4), Cents(2)>>, <<Cents(2), Cents(2)>>, <<-Cents(2), Cents(4)>>,
     <<Cents(4), -Cents(2)>>, <<Cents(20000), Cents(2)>>, <<Cents(65), Cents(20000)>>,
     <<Cents(502), -Cents(499)>>}

InitQuote ==
    /\ \E p \in QuoteParams : Is(NewMarketMaker(p))
    /\ NewLive
    /\ now = 0
    /\ call = [op |-> "__init__", args |-> <<>>]
    /\ ret = Returned(0)

QuoteBookUpdate ==
    \E i \in 0..Len(QuoteBooks) :
        /\ Become(update(Self, QuoteBookLevels(i, 1), QuoteBookLevels(i, 2), now))
        /\ call' = [op |-> "update", args |-> <<i>>]
        /\ ret' = Returned(0)
        /\ UNCHANGED <<liveVars, now>>

QuoteElapse ==
    /\ Elapse
    /\ call.op # "calculate_optimal_quotes"

QuoteCalculate ==
    /\ call' = [op |-> "calculate_optimal_quotes", args |-> <<>>]
    /\ ret' = Returned(calculate_optimal_quotes(Self, now))
    /\ UNCHANGED <<bookVars, params, ledgerVars, metricVars, quoteVars, liveVars, now>>

\* apply_inventory_constraints called with arbitrary raw quotes
QuoteApplyConstraints ==
    \E raw \in RawSpreads :
        LET mid_price == get_mid_price(bids, asks)
            bid_spread == raw[1]
            ask_spread == raw[2]
        IN /\ call' = [op |-> "apply_inventory_constraints",
                       args |-> <<mid_price - bid_spread, mid_price + ask_spread>>]
           /\ ret' = Returned(apply_inventory_constraints(Self,
                         mid_price - bid_spread, mid_price + ask_spread))
           /\ UNCHANGED <<bookVars, params, ledgerVars, metricVars, quoteVars,
                          liveVars, now>>

\* calculate_optimal_quotes past its mid-price check, with the two spreads of
\* the risk model given
QuoteFromSpreads ==
    \E raw \in RawSpreads :
        LET mid_price == get_mid_price(bids, asks)
            bid_spread == raw[1]
            ask_spread == raw[2]
        IN /\ mid_price # 0
           /\ call' = [op |-> "finish_quotes",
                       args |-> <<mid_price - bid_spread, mid_price + ask_spread>>]
           /\ ret' = Returned(finish_quotes(Self, mid_price,
                         mid_price - bid_spread, mid_price + ask_spread))
           /\ UNCHANGED <<bookVars, params, ledgerVars, metricVars, quoteVars,
                          liveVars, now>>

NextQuote ==
    \/ QuoteBookUpdate
    \/ QuoteElapse
    \/ QuoteCalculate
    \/ QuoteApplyConstraints
    \/ QuoteFromSpreads

SpecQuote == InitQuote /\ [][NextQuote]_vars

----------------------------------------------------------------------------
(* SpecThreads: the threads of LiveMarketMaker, one statement at a time.  *)
(* start() gives each stream a thread running _run_websocket with that    *)
(* stream's handler; __init__ starts the display thread; the main thread  *)
(* waits for Ctrl-C. No lock is shared: display_lock is taken by the      *)
(* display thread alone.                                                  *)

\* both streams given the order-book handler
handler_of_same(stream) == "on_order_book_message"

\* start, lines 499-506: the handler each stream's thread is given
handler_of(stream) ==
    IF stream = "OrderBook" THEN "on_order_book_message" ELSE "on_trade_message"

\* the positions of a thread inside the body of on_order_book_message
TickBody ==
    {"metrics", "refresh", "simulate", "record", "inventory", "cash",
     "trade_metrics", "done"}

\* the depth messages received: a two-sided book around 100.00, and one that
\* withdraws the bid
DepthMessages ==
    {[b |-> <<<<Cents(9999), 1>>>>, a |-> <<<<Cents(10001), 1>>>>],
     [b |-> <<<<Cents(9999), 0>>>>, a |-> <<<<Cents(10001), 1>>>>]}

\* the trade messages received
TradeMessages == {[p |-> Cents(10000), q |-> 1]}

\* LiveMarketMaker.max_display_rows
max_display_rows == 15

InitThreads ==
    /\ Is(NewMarketMaker(BaseParams))
    /\ NewLive
    /\ now = 0
    /\ call = [op |-> "__init__", args |-> <<>>]
    /\ ret = Returned(0)

\* the process is alive: its daemon threads still run
Alive == main_pc # "exited"

\* thread t moves to pc, with the locals l
Goto(t, pc, l) ==
    /\ ws_pc' = [ws_pc EXCEPT ![t] = pc]
    /\ ws_local' = [ws_local EXCEPT ![t] = l]

\* thread t leaves the handler
Leave(t) == Goto(t, "wait", NoLocals)

\* what a step of a stream's thread inside record_trade leaves alone
LedgerStepOnly ==
    UNCHANGED <<running, recent_trades, simulated_trades, last_bid_hit,
                last_ask_lift, received, disp_pc, shown, main_pc, now, call, ret>>

\* on_order_book_message, lines 284-292: a message with both lists is applied
\* to the book (one that lacks a list is dropped with no effect)
ThreadsUpdate ==
    \E t \in Streams, m \in DepthMessages :
        /\ Alive
        /\ handler_of(t) = "on_order_book_message"
        /\ ws_pc[t] = "wait"
        /\ received < MaxTicks
        /\ Len(trading_history) + 2 <= MaxTrades
        /\ Len(m.b) > 0 /\ Len(m.a) > 0
        /\ Become(update(Self, m.b, m.a, now))
        /\ Goto(t, "metrics", NoLocals)
        /\ received' = received + 1
        /\ UNCHANGED <<running, recent_trades, simulated_trades, last_bid_hit,
                       last_ask_lift, disp_pc, shown, main_pc, now, call, ret>>

\* on_order_book_message, lines 295-296
ThreadsMetrics ==
    \E t \in Streams :
        /\ Alive
        /\ ws_pc[t] = "metrics"
        /\ Become(update_pnl_and_metrics(Self, get_mid_price(bids, asks)))
        /\ Goto(t, "refresh", ws_local[t])
        /\ LedgerStepOnly

\* _refresh_quotes
ThreadsRefresh ==
    \E t \in Streams :
        /\ Alive
        /\ ws_pc[t] = "refresh"
        /\ LET quotes == calculate_optimal_quotes(Self, now)
           IN /\ current_bid_price' = quotes[1]
              /\ current_ask_price' = quotes[2]
        /\ Goto(t, "simulate", ws_local[t])
        /\ UNCHANGED <<bookVars, params, ledgerVars, metricVars>>
        /\ LedgerStepOnly

\* _simulate_trades, lines 337-369: the prices read, the early return, the two
\* Poisson draws (any count, the rate being positive) capped at one
ThreadsSimulate ==
    \E t \in Streams :
        /\ Alive
        /\ ws_pc[t] = "simulate"
        /\ LET mid_price == get_mid_price(bids, asks)
               bid_price == current_bid_price
               ask_price == current_ask_price
           IN IF mid_price = 0 \/ bid_price = 0 \/ ask_price = Inf
              THEN Leave(t)
              ELSE \E drawn_hit, drawn_lift \in 0..MaxPoisson :
                      LET bid_hit == Min2(drawn_hit, 1)
                          ask_lift == Min2(drawn_lift, 1)
                      IN IF bid_hit = 0 /\ ask_lift = 0
                         THEN Leave(t)
                         ELSE Goto(t, "record",
                                [side |-> IF bid_hit > 0 THEN "buy" ELSE "sell",
                                 bid_price |-> bid_price, ask_price |-> ask_price,
                                 mid_price |-> 0,
                                 bid_hit |-> bid_hit, ask_lift |-> ask_lift])
        /\ UNCHANGED <<bookVars, params, ledgerVars, metricVars, quoteVars>>
        /\ LedgerStepOnly

\* the price record_trade is called with, lines 370 and 380
FillPrice(l) == IF l.side = "buy" THEN l.bid_price ELSE l.ask_price

\* record_trade, lines 214-226: the mid price read and the record appended
ThreadsRecord ==
    \E t \in Streams :
        /\ Alive
        /\ ws_pc[t] = "record"
        /\ LET mid_price == get_mid_price(bids, asks)
               l == ws_local[t]
           IN /\ Become(append_trade(Self, l.side, FillPrice(l),
                                     params.order_size, mid_price))
              /\ Goto(t, "inventory", [l EXCEPT !.mid_price = mid_price])
        /\ LedgerStepOnly

\* record_trade, line 232 or 235
ThreadsInventory ==
    \E t \in Streams :
        /\ Alive
        /\ ws_pc[t] = "inventory"
        /\ Become(apply_inventory(Self, ws_local[t].side, params.order_size))
        /\ Goto(t, "cash", ws_local[t])
        /\ LedgerStepOnly

\* record_trade, line 233 or 236
ThreadsCash ==
    \E t \in Streams :
        /\ Alive
        /\ ws_pc[t] = "cash"
        /\ Become(apply_cash(Self, ws_local[t].side, FillPrice(ws_local[t]),
                             params.order_size))
        /\ Goto(t, "trade_metrics", ws_local[t])
        /\ LedgerStepOnly

\* record_trade, line 239
ThreadsTradeMetrics ==
    \E t \in Streams :
        /\ Alive
        /\ ws_pc[t] = "trade_metrics"
        /\ Become(update_pnl_and_metrics(Self, ws_local[t].mid_price))
        /\ Goto(t, "done", ws_local[t])
        /\ LedgerStepOnly

\* _simulate_trades, lines 371-379 after a buy and 381-387 after a sell
ThreadsDone ==
    \E t \in Streams :
        LET l == ws_local[t]
        IN /\ Alive
           /\ ws_pc[t] = "done"
           /\ simulated_trades' =
                 Append(simulated_trades,
                        [side |-> l.side, price |-> FillPrice(l),
                         size |-> params.order_size])
           /\ IF l.side = "buy"
              THEN /\ last_bid_hit' = now
                   /\ UNCHANGED last_ask_lift
                   /\ IF l.ask_lift > 0
                      THEN Goto(t, "record", [l EXCEPT !.side = "sell", !.mid_price = 0])
                      ELSE Leave(t)
              ELSE /\ last_ask_lift' = now
                   /\ UNCHANGED last_bid_hit
                   /\ Leave(t)
           /\ UNCHANGED <<bookVars, params, ledgerVars, metricVars, quoteVars,
                          running, recent_trades, received, disp_pc, shown,
                          main_pc, now, call, ret>>

\* on_trade_message
ThreadsTrade ==
    \E t \in Streams, m \in TradeMessages :
        /\ Alive
        /\ handler_of(t) = "on_trade_message"
        /\ ws_pc[t] = "wait"
        /\ recent_trades' =
              DequeAppend(recent_trades,
                          [price |-> m.p, size |-> m.q, volume |-> m.p * m.q],
                          DequeMaxLen)
        /\ recent_trades' # recent_trades
        /\ UNCHANGED <<bookVars, params, ledgerVars, metricVars, quoteVars, running,
                       simulated_trades, last_bid_hit, last_ask_lift, received,
                       ws_pc, ws_local, disp_pc, shown, main_pc, now, call, ret>>

\* _run_websocket, lines 403-407: run_forever returns on the stream's thread
\* (the connection closed or failed), outside any handler
ThreadsClose ==
    \E t \in Streams :
        /\ Alive
        /\ ws_pc[t] = "wait"
        /\ Goto(t, "closed", NoLocals)
        /\ UNCHANGED <<bookVars, params, ledgerVars, metricVars, quoteVars, running,
                       recent_trades, simulated_trades, last_bid_hit, last_ask_lift,
                       received, disp_pc, shown, main_pc, now, call, ret>>

\* _run_websocket, lines 394-409: the loop test after a close; a new
\* connection on the same thread, or the thread ends
ThreadsReconnect ==
    \E t \in Streams :
        /\ Alive
        /\ ws_pc[t] = "closed"
        /\ Goto(t, IF running THEN "wait" ELSE "ended", NoLocals)
        /\ UNCHANGED <<bookVars, params, ledgerVars, metricVars, quoteVars, running,
                       recent_trades, simulated_trades, last_bid_hit, last_ask_lift,
                       received, disp_pc, shown, main_pc, now, call, ret>>

\* the display thread alone moves
DisplayOnly ==
    UNCHANGED <<bookVars, params, ledgerVars, metricVars, quoteVars, running,
                recent_trades, simulated_trades, last_bid_hit, last_ask_lift,
                received, ws_pc, ws_local, main_pc, now, call, ret>>

\* _update_display, line 413, and _render_display, line 424: the loop test and
\* the terminal cleared
DisplayClear ==
    /\ Alive
    /\ disp_pc = "sleep"
    /\ IF running
       THEN /\ disp_pc' = "mid_price"
            /\ shown' = Cleared
       ELSE /\ disp_pc' = "ended"
            /\ UNCHANGED shown
    /\ DisplayOnly

\* _render_display, line 432, entering get_mid_price, lines 52-53: the guard is
\* evaluated; 0 is returned if it finds an empty side
DisplayMidPrice ==
    /\ Alive
    /\ disp_pc = "mid_price"
    /\ IF no_market(bids, asks)
       THEN /\ shown' = [shown EXCEPT !.mid_price = 0]
            /\ disp_pc' = "quotes"
       ELSE /\ disp_pc' = "best"
            /\ UNCHANGED shown
    /\ DisplayOnly

\* get_mid_price, lines 55-58, on the book as it is by now: max() or min() of
\* an empty key view raises ValueError, which leaves _render_display for the
\* except of line 418 (the pass is abandoned, the thread sleeps)
DisplayBest ==
    /\ Alive
    /\ disp_pc = "best"
    /\ IF DOMAIN bids = {} \/ DOMAIN asks = {}
       THEN /\ disp_pc' = "sleep"
            /\ UNCHANGED shown
       ELSE /\ shown' = [shown EXCEPT
                           !.mid_price = (SetMax(DOMAIN bids) + SetMin(DOMAIN asks)) \div 2]
            /\ disp_pc' = "quotes"
    /\ DisplayOnly

\* _render_display, lines 433-434: a falsy quote is shown as N/A (0 here)
DisplayQuotes ==
    /\ Alive
    /\ disp_pc = "quotes"
    /\ shown' = [shown EXCEPT
                   !.bid_price = IF Truthy(current_bid_price)
                                 THEN current_bid_price ELSE 0,
                   !.ask_price = IF Truthy(current_ask_price)
                                 THEN current_ask_price ELSE 0]
    /\ disp_pc' = "inventory"
    /\ DisplayOnly

\* _render_display, line 442
DisplayInventory ==
    /\ Alive
    /\ disp_pc = "inventory"
    /\ shown' = [shown EXCEPT !.inventory = inventory]
    /\ disp_pc' = "cash"
    /\ DisplayOnly

\* _render_display, line 443
DisplayCash ==
    /\ Alive
    /\ disp_pc = "cash"
    /\ shown' = [shown EXCEPT !.cash = cash]
    /\ disp_pc' = "pnl"
    /\ DisplayOnly

\* _render_display, line 444
DisplayPnl ==
    /\ Alive
    /\ disp_pc = "pnl"
    /\ shown' = [shown EXCEPT
                   !.pnl = IF Len(pnl_history) > 0 THEN Last(pnl_history) ELSE 0]
    /\ disp_pc' = "trades"
    /\ DisplayOnly

\* _render_display, lines 467-485: the rows of the trade table, then the sleep
DisplayTrades ==
    /\ Alive
    /\ disp_pc = "trades"
    /\ shown' = [shown EXCEPT
                   !.trades = Min2(Len(trading_history), max_display_rows)]
    /\ disp_pc' = "sleep"
    /\ DisplayOnly

\* start, lines 515-517: Ctrl-C
MainInterrupt ==
    /\ main_pc = "run"
    /\ running' = FALSE
    /\ main_pc' = "stopping"
    /\ UNCHANGED <<bookVars, params, ledgerVars, metricVars, quoteVars,
                   recent_trades, simulated_trades, last_bid_hit, last_ask_lift,
                   received, ws_pc, ws_local, disp_pc, shown, now, call, ret>>

\* start, lines 518-519: the main thread returns and the daemon threads stop
\* wherever they are
MainExit ==
    /\ main_pc = "stopping"
    /\ main_pc' = "exited"
    /\ UNCHANGED <<bookVars, params, ledgerVars, metricVars, quoteVars, running,
                   recent_trades, simulated_trades, last_bid_hit, last_ask_lift,
                   received, ws_pc, ws_local, disp_pc, shown, now, call, ret>>

NextThreads ==
    \/ ThreadsUpdate
    \/ ThreadsMetrics
    \/ ThreadsRefresh
    \/ ThreadsSimulate
    \/ ThreadsRecord
    \/ ThreadsInventory
    \/ ThreadsCash
    \/ ThreadsTradeMetrics
    \/ ThreadsDone
    \/ ThreadsTrade
    \/ ThreadsClose
    \/ ThreadsReconnect
    \/ DisplayClear
    \/ DisplayMidPrice
    \/ DisplayBest
    \/ DisplayQuotes
    \/ DisplayInventory
    \/ DisplayCash
    \/ DisplayPnl
    \/ DisplayTrades
    \/ MainInterrupt
    \/ MainExit

SpecThreads == InitThreads /\ [][NextThreads]_vars

----------------------------------------------------------------------------
(* SpecStreams: the two stream threads and the main thread of SpecThreads. *)
(* The display thread is left out: its steps change disp_pc and shown      *)
(* only, which no step of another thread reads.                            *)

NextStreams ==
    \/ ThreadsUpdate
    \/ ThreadsMetrics
    \/ ThreadsRefresh
    \/ ThreadsSimulate
    \/ ThreadsRecord
    \/ ThreadsInventory
    \/ ThreadsCash
    \/ ThreadsTradeMetrics
    \/ ThreadsDone
    \/ ThreadsTrade
    \/ ThreadsClose
    \/ ThreadsReconnect
    \/ MainInterrupt
    \/ MainExit

SpecStreams == InitThreads /\ [][NextStreams]_vars

----------------------------------------------------------------------------
(* LiveMarketMaker: the handlers as functions of the controller *)

\* a value that is a float
IsNumber(x) == x # Text /\ x # None

\* the controller as a record: the market maker, the fields the handlers
\* write, the errors logged by the running handler and the exception in flight
Live ==
    [mm |-> Self, simulated_trades |-> simulated_trades,
     last_bid_hit |-> last_bid_hit, last_ask_lift |-> last_ask_lift,
     log |-> <<>>, exc |-> ""]

\* the controller becomes L
BecomeLive(L) ==
    /\ Become(L.mm)
    /\ simulated_trades' = L.simulated_trades
    /\ last_bid_hit' = L.last_bid_hit
    /\ last_ask_lift' = L.last_ask_lift

\* _refresh_quotes
refresh_quotes(self, t) ==
    LET quotes == calculate_optimal_quotes(self, t)
    IN [self EXCEPT !.current_bid_price = quotes[1],
                    !.current_ask_price = quotes[2]]

\* self.market_maker.k * spread in floats: an infinite spread stays infinite
times_k(self, spread) == IF spread = Inf THEN Inf ELSE self.params.k * spread

\* the two rates with each side reading the other side's distance
arrival_rates_swapped(self) ==
    LET mid_price == get_mid_price(self.bids, self.asks)
        bid_spread == Max2(0, mid_price - self.current_bid_price)
        ask_spread == IF self.current_ask_price = Inf THEN Inf
                      ELSE Max2(0, self.current_ask_price - mid_price)
    IN [buy |-> [c |-> self.params.c, exponent |-> times_k(self, bid_spread)],
        sell |-> [c |-> self.params.c, exponent |-> times_k(self, ask_spread)]]

\* _simulate_trades, lines 346-357: lambda = c * exp(-k * spread) * time_scale
\* for each side, kept as c and the exponent k * spread
arrival_rates(self) ==
    LET mid_price == get_mid_price(self.bids, self.asks)
        bid_spread == Max2(0, mid_price - self.current_bid_price)
        ask_spread == IF self.current_ask_price = Inf THEN Inf
                      ELSE Max2(0, self.current_ask_price - mid_price)
    IN [buy |-> [c |-> self.params.c, exponent |-> times_k(self, ask_spread)],
        sell |-> [c |-> self.params.c, exponent |-> times_k(self, bid_spread)]]

\* np.random.poisson raises ValueError on a negative rate
poisson_raises(rate) == rate.c < 0

\* the counts np.random.poisson may return: any for a positive rate, 0 for
\* rate 0 (c = 0, or exp(-inf) = 0)
PoissonCounts(rate) ==
    IF rate.c > 0 /\ rate.exponent < Inf THEN 0..MaxPoisson ELSE {0}

\* record_trade and the bookkeeping after it, lines 370-377 or 380-387; a size
\* that is no number raises TypeError at line 232 or 235, after the record was
\* appended
fill_once(L, side, price, t) ==
    LET size == L.mm.params.order_size
    IN IF IsNumber(size)
       THEN [L EXCEPT
               !.mm = record_trade(@, side, price, size),
               !.last_bid_hit = IF side = "buy" THEN t ELSE @,
               !.last_ask_lift = IF side = "sell" THEN t ELSE @,
               !.simulated_trades =
                   Append(@, [side |-> side, price |-> price, size |-> size])]
       ELSE [L EXCEPT
               !.mm = append_trade(@, side, price, size,
                                   get_mid_price(L.mm.bids, L.mm.asks)),
               !.exc = "TypeError"]

RECURSIVE fill_side_each_arrival(_, _, _, _, _)
\* one fill for every arrival drawn
fill_side_each_arrival(L, side, price, drawn, t) ==
    IF drawn = 0 \/ L.exc # "" THEN L
    ELSE fill_side_each_arrival(fill_once(L, side, price, t), side, price, drawn - 1, t)

\* _simulate_trades, lines 365-377 or 366-387: the count capped at one, and one
\* fill if it is positive (nothing once an exception has left the try block)
fill_side(L, side, price, drawn, t) ==
    LET hit == Min2(drawn, 1)
    IN IF hit > 0 /\ L.exc = "" THEN fill_once(L, side, price, t) ELSE L

\* the check passed as long as one side is quoted
quotable_either_side(self) ==
    ~(\/ get_mid_price(self.bids, self.asks) = 0
      \/ (self.current_bid_price = 0 /\ self.current_ask_price = Inf))

\* the quotes let _simulate_trades past its check of line 342
quotable(self) ==
    ~(\/ get_mid_price(self.bids, self.asks) = 0
      \/ self.current_bid_price = 0
      \/ self.current_ask_price = Inf)

\* _simulate_trades with the two counts drawn
simulate_trades(L, drawn_hit, drawn_lift, t) ==
    LET bid_price == L.mm.current_bid_price
        ask_price == L.mm.current_ask_price
        rates == arrival_rates(L.mm)
        filled == fill_side(fill_side(L, "buy", bid_price, drawn_hit, t),
                            "sell", ask_price, drawn_lift, t)
    IN IF ~quotable(L.mm) THEN L
       ELSE IF poisson_raises(rates.sell) \/ poisson_raises(rates.buy)
       THEN [L EXCEPT !.log = Append(@, "Error simulating trades")]
       ELSE IF filled.exc # ""
       THEN [filled EXCEPT !.log = Append(@, "Error simulating trades"),
                           !.exc = ""]
       ELSE filled

\* on_order_book_message up to _simulate_trades, lines 284-299
before_simulate(L, m, t) ==
    LET updated == update(L.mm, m.b, m.a, t)
        sampled == update_pnl_and_metrics(updated,
                       get_mid_price(updated.bids, updated.asks))
    IN [L EXCEPT !.mm = refresh_quotes(sampled, t)]

\* the message carries both lists
processed(m) == Len(m.b) > 0 /\ Len(m.a) > 0

\* on_order_book_message
on_order_book_message(L, m, drawn_hit, drawn_lift, t) ==
    IF processed(m)
    THEN simulate_trades(before_simulate(L, m, t), drawn_hit, drawn_lift, t)
    ELSE L

----------------------------------------------------------------------------
(* Spec: the controller with each handler run to completion *)

\* the parameter sets a controller is constructed with: the __main__ ones, a
\* zero volatility, a negative order intensity, an order size given as text,
\* and an initial inventory one order short of either suppression threshold
LiveParams ==
    {BaseParams,
     [BaseParams EXCEPT !.sigma = 0],
     [BaseParams EXCEPT !.c = -1],
     [BaseParams EXCEPT !.order_size = Text],
     [BaseParams EXCEPT !.initial_inventory = 3],
     [BaseParams EXCEPT !.initial_inventory = -3]}

\* the depth messages received: those of SpecThreads, one without asks, and
\* one of a book quoted around 0.50
LiveDepthMessages ==
    DepthMessages \cup {[b |-> <<<<Cents(9999), 1>>>>, a |-> <<>>],
                        [b |-> <<<<Cents(49), 1>>>>, a |-> <<<<Cents(51), 1>>>>]}

\* no rate is computed: nothing is drawn
NoRates ==
    [buy |-> [c |-> 0, exponent |-> 0], sell |-> [c |-> 0, exponent |-> 0]]

\* the rates the two draws of a tick on message m are made with
tick_rates(L, m, t) ==
    IF processed(m)
    THEN CHOOSE rates \in {IF quotable(ready.mm) THEN arrival_rates(ready.mm)
                           ELSE NoRates : ready \in {before_simulate(L, m, t)}} : TRUE
    ELSE NoRates

Init ==
    /\ \E p \in LiveParams : Is(NewMarketMaker(p))
    /\ NewLive
    /\ now = 0
    /\ call = [op |-> "__init__", args |-> <<>>]
    /\ ret = Returned(0)

\* on_order_book_message on one depth message, with the counts it draws; what
\* it logged is kept as the call's result (it lets no exception out)
OnOrderBookMessage ==
    /\ Alive
    /\ received < MaxTicks
    /\ Len(trading_history) + 2 <= MaxTrades
    /\ \E m \in LiveDepthMessages :
        \E rates \in {tick_rates(Live, m, now)} :
            \E drawn_hit \in PoissonCounts(rates.sell),
               drawn_lift \in PoissonCounts(rates.buy) :
                \E after \in {on_order_book_message(Live, m, drawn_hit, drawn_lift, now)} :
                    /\ BecomeLive(after)
                    /\ received' = received + 1
                    /\ call' = [op |-> "on_order_book_message",
                                args |-> <<m,
                                           [rate |-> rates.sell, count |-> drawn_hit],
                                           [rate |-> rates.buy, count |-> drawn_lift]>>]
                    /\ ret' = [exc |-> after.exc, val |-> after.log]
                    /\ UNCHANGED <<running, recent_trades, ws_pc, ws_local, disp_pc,
                                   shown, main_pc, now>>

\* on_trade_message
OnTradeMessage ==
    \E m \in TradeMessages :
        /\ Alive
        /\ recent_trades' =
              DequeAppend(recent_trades,
                          [price |-> m.p, size |-> m.q, volume |-> m.p * m.q],
                          DequeMaxLen)
        /\ recent_trades' # recent_trades
        /\ call' = [op |-> "on_trade_message", args |-> <<m>>]
        /\ ret' = Returned(<<>>)
        /\ UNCHANGED <<bookVars, params, ledgerVars, metricVars, quoteVars, running,
                       simulated_trades, last_bid_hit, last_ask_lift, received,
                       ws_pc, ws_local, disp_pc, shown, main_pc, now>>

\* one pass of _update_display: _render_display from line 424 to line 485
UpdateDisplay ==
    /\ Alive
    /\ running
    /\ shown' =
          [mid_price |-> get_mid_price(bids, asks),
           bid_price |-> IF Truthy(current_bid_price) THEN current_bid_price ELSE 0,
           ask_price |-> IF Truthy(current_ask_price) THEN current_ask_price ELSE 0,
           inventory |-> inventory,
           cash |-> cash,
           pnl |-> IF Len(pnl_history) > 0 THEN Last(pnl_history) ELSE 0,
           trades |-> Min2(Len(trading_history), max_display_rows)]
    /\ shown' # shown
    /\ UNCHANGED <<bookVars, params, ledgerVars, metricVars, quoteVars, running,
                   recent_trades, simulated_trades, last_bid_hit, last_ask_lift,
                   received, ws_pc, ws_local, disp_pc, main_pc, now, call, ret>>

Next ==
    \/ OnOrderBookMessage
    \/ OnTradeMessage
    \/ UpdateDisplay
    \/ Elapse
    \/ MainInterrupt
    \/ MainExit

Spec == Init /\ [][Next]_vars

\* the order-book stream alone: its handler and the clock
NextTicks ==
    \/ OnOrderBookMessage
    \/ Elapse

SpecTicks == Init /\ [][NextTicks]_vars

\* the stream threads one statement at a time, with each pass of the display
\* thread whole
NextWrites ==
    \/ NextStreams
    \/ UpdateDisplay

SpecWrites == InitThreads /\ [][NextWrites]_vars

----------------------------------------------------------------------------
(* Claims *)

RECURSIVE HistoryInventory(_)
\* the summed inventory effect of the records of h
HistoryInventory(h) ==
    IF h = <<>> THEN 0
    ELSE (IF Head(h).side = "buy" THEN Head(h).size ELSE -Head(h).size)
         + HistoryInventory(Tail(h))

RECURSIVE HistoryCash(_)
\* the summed cash effect of the records of h
HistoryCash(h) ==
    IF h = <<>> THEN 0
    ELSE (IF Head(h).side = "buy" THEN -(Head(h).price * Head(h).size)
          ELSE Head(h).price * Head(h).size)
         + HistoryCash(Tail(h))

\* C1: after any sequence of record_trade calls the ledger equals the initial
\* values plus the summed effects of trading_history, and the mark-to-market
\* sample update_pnl_and_metrics(p) records equals cash + inventory*p recomputed
\* from the history, for every marking price p.
LedgerMatchesHistory ==
    LET inv == params.initial_inventory + HistoryInventory(trading_history)
        csh == params.initial_cash + HistoryCash(trading_history)
    IN /\ inventory = inv
       /\ cash = csh
       /\ \A p \in MarkPrices : cash + inventory * p = csh + inv * p
       /\ call.op = "update_pnl_and_metrics"
            => Last(pnl_history) = csh + inv * call.args[1]
       /\ call.op = "record_trade"
            => Last(pnl_history) = csh + inv * get_mid_price(bids, asks)

\* a buy and a sell are in the history and a non-zero position has been marked
WitnessLedgerMatchesHistory ==
    /\ call.op = "update_pnl_and_metrics"
    /\ call.args[1] > 0
    /\ inventory # 0
    /\ \E i, j \in 1..Len(trading_history) :
           trading_history[i].side = "buy" /\ trading_history[j].side = "sell"

\* the effect of one record_trade step on the ledger
FillStep ==
    (call'.op = "record_trade" /\ Len(trading_history') = Len(trading_history) + 1)
    => LET side == call'.args[1]
           price == call'.args[2]
           size == call'.args[3]
       IN /\ side = "buy" => inventory' = inventory + size /\ cash' = cash - price * size
          /\ side = "sell" => inventory' = inventory - size /\ cash' = cash + price * size

\* a buy of s at p1 followed by a sell of s at p2, from the initial ledger
RoundTrip ==
    (/\ Len(trading_history) = 2
     /\ trading_history[1].side = "buy"
     /\ trading_history[2].side = "sell"
     /\ trading_history[1].size = trading_history[2].size)
    => /\ inventory = params.initial_inventory
       /\ cash = params.initial_cash
                 + trading_history[1].size
                   * (trading_history[2].price - trading_history[1].price)
       /\ (inventory = 0 /\ call.op = "update_pnl_and_metrics")
            => Last(pnl_history) = cash

\* C2: record_trade('buy', p, s) adds s to inventory and takes p*s from cash,
\* record_trade('sell', p, s) does the reverse; a buy of s at p1 followed by a
\* sell of s at p2 restores inventory and changes cash by s*(p2 - p1), and with
\* inventory back at 0 the mark-to-market is the cash at any marking price.
FillEffects == [][FillStep]_vars /\ []RoundTrip

\* bought 1 at 100, sold 1 at 101, flat again and marked at a non-zero price
WitnessFillEffects ==
    /\ Len(trading_history) = 2
    /\ trading_history[1].side = "buy" /\ trading_history[2].side = "sell"
    /\ trading_history[1].size = trading_history[2].size
    /\ trading_history[1].price < trading_history[2].price
    /\ inventory = 0
    /\ call.op = "update_pnl_and_metrics" /\ call.args[1] > 0
    /\ Last(pnl_history) = params.initial_cash + Cents(100)

\* two successive evaluations of the same formula at the same time and sigma
SpreadStep ==
    (/\ call.op \in {"optimal_bid_spread", "optimal_ask_spread"}
     /\ call'.op = call.op
     /\ call'.args[2] = call.args[2]
     /\ call'.args[3] = call.args[3]
     /\ call.args[1] < call'.args[1])
    => IF call.op = "optimal_bid_spread" THEN ret.val < ret'.val
       ELSE ret.val > ret'.val

\* C6: for fixed gamma, k, sigma and remaining_time, optimal_bid_spread is
\* strictly increasing and optimal_ask_spread strictly decreasing in inventory.
SpreadMonotone == [][SpreadStep]_vars

\* the bid spread at a short inventory is below the bid spread at inventory 0
WitnessSpreadMonotone ==
    /\ call.op = "optimal_bid_spread"
    /\ call.args[1] < 0
    /\ ret.val < optimal_bid_spread(Self, 0, call.args[2], call.args[3])

\* the bid spread at q followed by the ask spread at -q
MirrorStep ==
    (/\ call.op = "optimal_bid_spread"
     /\ call'.op = "optimal_ask_spread"
     /\ call'.args[1] = -call.args[1]
     /\ call'.args[2] = call.args[2]
     /\ call'.args[3] = call.args[3])
    => ret'.val = ret.val

\* C7: optimal_bid_spread(q, t, sigma) = optimal_ask_spread(-q, t, sigma) for
\* every q, t and sigma; at inventory 0 the two spreads are equal.
SpreadMirror == [][MirrorStep]_vars

\* the ask spread at a non-zero inventory, equal to the bid spread at its negative
WitnessSpreadMirror ==
    /\ call.op = "optimal_ask_spread"
    /\ call.args[1] # 0
    /\ ret.val = optimal_bid_spread(Self, -call.args[1], call.args[2], call.args[3])
    /\ ret.val # optimal_bid_spread(Self, call.args[1], call.args[2], call.args[3])

\* C8: OrderBook.update is idempotent: after update(bids, asks), the same call
\* again leaves the same bids and asks maps, hence the same get_best_bid_ask()
\* and get_mid_price().
UpdateIdempotent ==
    call.op = "update"
    => LET again == update(Self, call.args[1], call.args[2], now)
       IN /\ again.bids = bids
          /\ again.asks = asks
          /\ get_best_bid_ask(again.bids, again.asks) = get_best_bid_ask(bids, asks)
          /\ get_mid_price(again.bids, again.asks) = get_mid_price(bids, asks)

\* an update that named one bid price twice with different sizes, on a
\* two-sided book
WitnessUpdateIdempotent ==
    /\ call.op = "update"
    /\ Len(call.args[1]) = 2
    /\ call.args[1][1][1] = call.args[1][2][1]
    /\ call.args[1][1][2] # call.args[1][2][2]
    /\ call.args[1][2][2] > 0
    /\ DOMAIN asks # {}

\* what the two queries return in the current book
BestBidAskState ==
    LET best == get_best_bid_ask(bids, asks)
        mid == get_mid_price(bids, asks)
    IN /\ ~best_raises(bids, asks)
       /\ IF DOMAIN bids = {} \/ DOMAIN asks = {}
          THEN best = <<0, 0>> /\ mid = 0
          ELSE /\ best[1] \in DOMAIN bids
               /\ \A q \in DOMAIN bids : q <= best[1]
               /\ best[2] \in DOMAIN asks
               /\ \A q \in DOMAIN asks : best[2] <= q
               /\ 2 * mid = best[1] + best[2]
       /\ call.op = "get_best_bid_ask" => ret = Returned(best)
       /\ call.op = "get_mid_price" => ret = Returned(mid)

\* a query step leaves the book as it was
QueryStep ==
    call'.op \in {"get_best_bid_ask", "get_mid_price"}
    => bids' = bids /\ asks' = asks

\* C9: get_best_bid_ask() returns (0, 0) and get_mid_price() 0 when a side is
\* empty, otherwise (highest bid, lowest ask) and their average; neither call
\* raises and neither changes the book.
BestBidAskCorrect == []BestBidAskState /\ [][QueryStep]_vars

\* get_best_bid_ask answered on a book with two bids and two asks
WitnessBestBidAskCorrect ==
    /\ call.op = "get_best_bid_ask"
    /\ Cardinality(DOMAIN bids) = 2
    /\ Cardinality(DOMAIN asks) = 2
    /\ ret.val = <<Cents(10000), Cents(10001)>>

\* one millionth of a price: the tolerance granted to the spread floor
Tolerance == PriceScale \div 1000000

\* the quotes a call of the quote engine returned, in a book with a mid-price
QuotesReturned ==
    /\ call.op \in {"calculate_optimal_quotes", "finish_quotes"}
    /\ get_mid_price(bids, asks) # 0

\* C4: with a mid-price and inventory >= 0.8*max_inventory the bid the quote
\* engine returns is 0 whatever the spreads are; with inventory
\* <= -0.8*max_inventory the ask it returns is +infinity.
SuppressedSide ==
    (QuotesReturned \/ call.op = "apply_inventory_constraints")
    => /\ 10 * inventory >= 8 * params.max_inventory => ret.val[1] = 0
       /\ 10 * inventory <= -8 * params.max_inventory => ret.val[2] = Inf

\* quotes returned at inventory exactly 0.8*max_inventory: no bid, an ask
WitnessSuppressedSide ==
    /\ QuotesReturned
    /\ 10 * inventory = 8 * params.max_inventory
    /\ ret.val[1] = 0
    /\ 0 < ret.val[2] /\ ret.val[2] < Inf

\* C5: whenever calculate_optimal_quotes returns two non-sentinel quotes,
\* ask - bid >= mid_price*min_spread_pct up to a tiny tolerance, and bid < ask.
SpreadFloor ==
    (/\ call.op = "calculate_optimal_quotes"
     /\ ret.val[1] # 0
     /\ ret.val[2] # Inf)
    => /\ ret.val[2] - ret.val[1]
            >= min_spread_of(Self, get_mid_price(bids, asks)) - Tolerance
       /\ ret.val[1] < ret.val[2]

\* C10: with an empty side (mid-price 0) calculate_optimal_quotes returns the
\* no-quote sentinels, 0 for the bid and +infinity for the ask, without raising.
ZeroMidSentinels ==
    (call.op = "calculate_optimal_quotes" /\ get_mid_price(bids, asks) = 0)
    => ret = Returned(<<0, Inf>>)

\* the ledger holds whole fills only: inventory and cash are the initial values
\* plus the effects of the same first n records
LedgerWhole ==
    \E n \in 0..Len(trading_history) :
        /\ inventory = params.initial_inventory
                         + HistoryInventory(SubSeq(trading_history, 1, n))
        /\ cash = params.initial_cash
                    + HistoryCash(SubSeq(trading_history, 1, n))

\* the display thread reads inventory or cash in this step, and reads them from
\* a ledger of whole fills
WholeRead ==
    (disp_pc \in {"inventory", "cash"} /\ disp_pc' # disp_pc) => LedgerWhole

\* C3: under every interleaving of record_trade on the order-book thread with
\* the display thread, the display never reads inventory or cash from a state
\* in which a fill has moved one of them and not yet the other.
ReaderSeesWholeFills == [][WholeRead]_vars

\* C11: every record of trading_history carries the ledger as it is after its
\* fill: between fills the last record's inventory_after and cash_after are
\* the current inventory and cash.
SnapshotsAfterFill ==
    Len(trading_history) > 0 =>
        /\ Last(trading_history).inventory_after = inventory
        /\ Last(trading_history).cash_after = cash

\* the index of the last level of levels that names price p, 0 if none does
LastNaming(levels, p) ==
    LET named == {i \in 1..Len(levels) : levels[i][1] = p}
    IN IF named = {} THEN 0 ELSE SetMax(named)

\* side `after` is side `before` with the levels applied: the last level naming
\* a price decides it, a price no level names is as before
LevelsApplied(before, after, levels) ==
    \A p \in DOMAIN before \cup DOMAIN after \cup {levels[i][1] : i \in 1..Len(levels)} :
        LET i == LastNaming(levels, p)
        IN IF i = 0
           THEN /\ (p \in DOMAIN after) = (p \in DOMAIN before)
                /\ p \in DOMAIN before => after[p] = before[p]
           ELSE IF levels[i][2] > 0
                THEN p \in DOMAIN after /\ after[p] = levels[i][2]
                ELSE p \notin DOMAIN after

\* an update call whose effect on each side is that of its own levels
UpdateStep ==
    call'.op = "update" =>
        /\ LevelsApplied(bids, bids', call'.args[1])
        /\ LevelsApplied(asks, asks', call'.args[2])

\* C15: update applies each level in order to its own side: size > 0 sets the
\* price's size (last write wins), size <= 0 removes the price, a price not
\* named keeps its size, and neither list touches the other side.
UpdateAppliesLevels == [][UpdateStep]_vars

\* an update that set and then removed one bid price while another bid price,
\* not named, stayed, on a book with an ask
WitnessUpdateAppliesLevels ==
    /\ call.op = "update"
    /\ call.args[1] = <<<<Cents(9999), 2>>, <<Cents(9999), 0>>>>
    /\ DOMAIN bids = {Cents(10000)}
    /\ DOMAIN asks = {Cents(10003)}

\* |x|
Abs(x) == IF x < 0 THEN -x ELSE x

\* the inventory is in the band where the bid is throttled, or the ask
BidThrottled ==
    /\ 2 * inventory >= params.max_inventory
    /\ 10 * inventory < 8 * params.max_inventory

AskThrottled ==
    /\ 2 * inventory <= -params.max_inventory
    /\ 10 * inventory > -8 * params.max_inventory

BidSuppressed == 10 * inventory >= 8 * params.max_inventory

AskSuppressed == 10 * inventory <= -8 * params.max_inventory

\* apply_inventory_constraints has just returned
ConstraintsReturned == call.op = "apply_inventory_constraints" /\ ret.exc = ""

\* C16 as claimed: in its band a throttled quote lies at the raw distance from
\* mid multiplied by (max_inventory -/+ inventory)/max_inventory, toward mid;
\* outside the bands the raw quote is returned unchanged.
ThrottleTowardMid ==
    ConstraintsReturned =>
        LET mid_price == get_mid_price(bids, asks)
            max_inventory == params.max_inventory
        IN /\ BidThrottled =>
                Abs((mid_price - ret.val[1]) * max_inventory
                    - (mid_price - call.args[1]) * (max_inventory - inventory))
                  <= max_inventory * Tolerance
           /\ AskThrottled =>
                Abs((ret.val[2] - mid_price) * max_inventory
                    - (call.args[2] - mid_price) * (max_inventory + inventory))
                  <= max_inventory * Tolerance
           /\ ~BidThrottled /\ ~BidSuppressed => ret.val[1] = call.args[1]
           /\ ~AskThrottled /\ ~AskSuppressed => ret.val[2] = call.args[2]

\* C16 amended: in its band a throttled quote lies at the raw distance from mid
\* divided by (max_inventory -/+ inventory)/max_inventory, away from mid;
\* outside the bands the raw quote is returned unchanged.
ThrottleAwayFromMid ==
    ConstraintsReturned =>
        LET mid_price == get_mid_price(bids, asks)
            max_inventory == params.max_inventory
        IN /\ BidThrottled =>
                Abs((mid_price - ret.val[1]) * (max_inventory - inventory)
                    - (mid_price - call.args[1]) * max_inventory)
                  <= max_inventory * Tolerance
           /\ AskThrottled =>
                Abs((ret.val[2] - mid_price) * (max_inventory + inventory)
                    - (call.args[2] - mid_price) * max_inventory)
                  <= max_inventory * Tolerance
           /\ ~BidThrottled /\ ~BidSuppressed => ret.val[1] = call.args[1]
           /\ ~AskThrottled /\ ~AskSuppressed => ret.val[2] = call.args[2]

\* a short inventory in the ask's band, a raw ask above mid, and the ask
\* returned further from mid than the raw ask while the bid came back as given
WitnessThrottleAwayFromMid ==
    /\ ConstraintsReturned
    /\ AskThrottled
    /\ call.args[2] > get_mid_price(bids, asks)
    /\ get_mid_price(bids, asks) > 0
    /\ ret.val[2] > call.args[2]
    /\ ret.val[1] = call.args[1]

\* the stream threads that are inside the body of on_order_book_message
InTick == {t \in Streams : ws_pc[t] \in TickBody}

\* C18: no two executions of the tick body overlap: at any moment at most one
\* thread is inside the body of on_order_book_message, under every
\* interleaving of the stream threads, reconnects and the stop.
OneTickAtATime == Cardinality(InTick) <= 1

\* the order-book thread between the two ledger statements of a second tick's
\* fill, while the trades thread, having delivered a trade, has lost its
\* connection
WitnessOneTickAtATime ==
    /\ ws_pc["OrderBook"] = "cash"
    /\ received = 2
    /\ ws_pc["Trades"] = "closed"
    /\ recent_trades # <<>>

\* C17: a stop takes effect only between ticks: when the process has exited,
\* no thread was cut off inside the body of on_order_book_message.
StopBetweenTicks == main_pc = "exited" => InTick = {}

----------------------------------------------------------------------------
\* the step is one tick: on_order_book_message ran on a message
Tick == received' = received + 1

\* the positions of the records the step appended to trading_history
NewRecords == (Len(trading_history) + 1)..Len(trading_history')

\* the appended records of one side
NewSide(side) == {i \in NewRecords : trading_history'[i].side = side}

\* a tick appends at most one buy and at most one sell, and moves inventory by
\* at most order_size (not at all if order_size is no number)
CappedTick ==
    Tick =>
        /\ Len(trading_history') <= Len(trading_history) + 2
        /\ Cardinality(NewSide("buy")) <= 1
        /\ Cardinality(NewSide("sell")) <= 1
        /\ IF IsNumber(params.order_size)
           THEN Abs(inventory' - inventory) <= params.order_size
           ELSE inventory' = inventory

\* C12: in one tick _simulate_trades applies at most one fill on the bid and at
\* most one on the ask whatever counts were drawn: trading_history grows by at
\* most two records and inventory moves by at most order_size
OneFillPerSide == [][CappedTick]_vars

\* a first tick drew two arrivals on each side and filled one buy and one sell
WitnessOneFillPerSide ==
    /\ call.op = "on_order_book_message"
    /\ received = 1
    /\ call.args[2].count >= 2
    /\ call.args[3].count >= 2
    /\ Len(trading_history) = 2
    /\ trading_history[1].side = "buy"
    /\ trading_history[2].side = "sell"
    /\ inventory = params.initial_inventory

----------------------------------------------------------------------------
\* the parameters the constructors are required to refuse are all positive
ValidParams(p) ==
    /\ p.sigma > 0
    /\ p.gamma > 0
    /\ p.k > 0
    /\ p.T > 0
    /\ p.max_inventory > 0
    /\ IsNumber(p.order_size) /\ p.order_size > 0
    /\ p.min_spread_pct[1] > 0

\* C13: a controller constructed with an invalid parameter (non-positive sigma,
\* gamma, k, T, max_inventory, order_size or min_spread_pct) never becomes
\* active: it never computes quotes and never applies a fill
InvalidNeverActive ==
    ~ValidParams(params) =>
        /\ quote_history = <<>>
        /\ trading_history = <<>>

----------------------------------------------------------------------------
\* the tick logged a failure of _simulate_trades (line 390)
SimulationFailed ==
    /\ Tick
    /\ \E i \in DOMAIN ret'.val : ret'.val[i] = "Error simulating trades"

\* a tick whose simulation failed leaves cash, inventory and trading_history
\* as they were and lets no exception out
FailedTickUntouched ==
    SimulationFailed =>
        /\ ret'.exc = ""
        /\ cash' = cash
        /\ inventory' = inventory
        /\ trading_history' = trading_history

\* C14: if simulating or applying a fill fails during a tick, cash, inventory
\* and trading_history are as they were before the fill attempt, the failure is
\* logged and no exception leaves on_order_book_message
FailedFillRollsBack == [][FailedTickUntouched]_vars

----------------------------------------------------------------------------
\* the tick processed its message and left the book with an empty side
ZeroMidTick ==
    /\ Tick
    /\ processed(call'.args[1])
    /\ get_mid_price(bids', asks') = 0

\* a tick at mid-price 0 leaves both current quotes as they were
ZeroMidTickKeepsQuotes ==
    ZeroMidTick =>
        /\ current_bid_price' = current_bid_price
        /\ current_ask_price' = current_ask_price

\* C19: a tick in which the mid-price is 0 causes no quote change: after
\* on_order_book_message processed a message that leaves the book with an empty
\* side, current_bid_price and current_ask_price are what they were before
ZeroMidNoQuoteChange == [][ZeroMidTickKeepsQuotes]_vars

----------------------------------------------------------------------------
\* the draw against the bid and the draw against the ask of the tick just made
BidDraw == call'.args[2]
AskDraw == call'.args[3]

\* the mid-price the tick quoted around
TickMid == get_mid_price(bids', asks')

\* record i is a fill at the quote of its side made in this tick, of the
\* configured size, drawn at the rate of that quote's own distance from mid
FillMatchesQuote(i) ==
    LET fill == trading_history'[i]
    IN /\ fill.size = params.order_size
       /\ fill.side \in {"buy", "sell"}
       /\ fill.side = "buy" =>
             /\ fill.price = current_bid_price'
             /\ BidDraw.count >= 1
             /\ BidDraw.rate.exponent = params.k * Max2(0, TickMid - current_bid_price')
       /\ fill.side = "sell" =>
             /\ fill.price = current_ask_price'
             /\ AskDraw.count >= 1
             /\ AskDraw.rate.exponent = params.k * Max2(0, current_ask_price' - TickMid)

\* every record a tick appends matches the quote it hits
TickFillsMatchQuotes == Tick => \A i \in NewRecords : FillMatchesQuote(i)

\* C20: every simulated fill is recorded with the side, price and size of the
\* quote it hits: a hit bid as a buy at the bid quoted in that tick, a lifted
\* ask as a sell at the ask quoted in that tick, both of size order_size; the
\* bid-side arrival uses the bid's distance from mid, the ask-side the ask's
FillsMatchQuotes == [][TickFillsMatchQuotes]_vars

\* a second tick, quoted with inventory held so that the two distances differ,
\* filled a sell at the ask
WitnessFillsMatchQuotes ==
    /\ call.op = "on_order_book_message"
    /\ received = 2
    /\ Len(trading_history) = 2
    /\ trading_history[1].side = "buy"
    /\ trading_history[2].side = "sell"
    /\ trading_history[2].price = current_ask_price
    /\ trading_history[2].price # trading_history[1].price
    /\ call.args[3].count >= 1
    /\ call.args[3].rate.exponent # call.args[2].rate.exponent

----------------------------------------------------------------------------
\* the statements of record_trade, lines 214-239, as positions of a stream's
\* thread
InRecordTrade == {"record", "inventory", "cash", "trade_metrics"}

\* the step wrote cash, inventory or trading_history
LedgerWritten ==
    \/ cash' # cash
    \/ inventory' # inventory
    \/ trading_history' # trading_history

\* a step that writes the ledger is a statement of record_trade, run by the
\* order-book thread
WrittenByRecordTrade ==
    LedgerWritten =>
        /\ ws_pc["OrderBook"] \in InRecordTrade
        /\ ws_pc'["OrderBook"] # ws_pc["OrderBook"]
        /\ shown' = shown
        /\ recent_trades' = recent_trades

\* C21: cash and inventory change only inside record_trade: OrderBook.update,
\* update_pnl_and_metrics, calculate_optimal_quotes, apply_inventory_constraints,
\* _refresh_quotes, on_trade_message and the display thread leave cash,
\* inventory and trading_history unchanged
OnlyRecordTradeWrites == [][WrittenByRecordTrade]_vars

\* every other operation has run, with inventory held, and the ledger shows
\* one fill: a book update, a sample, a refresh, a trade message and a display
\* pass after the fill
WitnessOnlyRecordTradeWrites ==
    /\ Len(trading_history) = 1
    /\ inventory # params.initial_inventory
    /\ cash # params.initial_cash
    /\ received = 2
    /\ ws_pc["OrderBook"] = "simulate"
    /\ recent_trades # <<>>
    /\ shown # Cleared
    /\ shown.inventory = inventory
    /\ shown.cash = cash

----------------------------------------------------------------------------
\* the book after the levels of message m are applied by OrderBook.update
Delivered(m) == update(Self, m.b, m.a, now)

\* the tick applied every level of the message it was delivered
TickAppliesMessage ==
    Tick =>
        /\ bids' = Delivered(call'.args[1]).bids
        /\ asks' = Delivered(call'.args[1]).asks

\* C22: every depth message delivered mutates the order book: each level of
\* the message is applied by OrderBook.update, also when the message carries
\* levels for one side only, so the book is the result of applying all
\* delivered levels in order
EveryMessageApplied == [][TickAppliesMessage]_vars

----------------------------------------------------------------------------
\* finish_quotes returned, from raw quotes whose throttled pair is non-sentinel
\* and stands in relation narrow (TRUE: closer than the floor) to the floor
FloorCase(narrow) ==
    /\ call.op = "finish_quotes"
    /\ LET throttled == apply_inventory_constraints(Self, call.args[1], call.args[2])
           mid_price == get_mid_price(bids, asks)
       IN /\ throttled[1] # 0
          /\ throttled[2] # Inf
          /\ narrow = (throttled[2] - throttled[1] < min_spread_of(Self, mid_price))

\* the pair recentred on mid at exactly the floor, rounded
Recentred ==
    LET mid_price == get_mid_price(bids, asks)
        floor == min_spread_of(Self, mid_price)
    IN round_quotes(mid_price, <<mid_price - floor \div 2, mid_price + floor \div 2>>)

\* C23: when both throttled quotes are non-sentinel and closer than
\* mid_price*min_spread_pct, calculate_optimal_quotes replaces them by
\* mid - floor/2 and mid + floor/2 and rounds; when the spread meets the floor
\* the throttled quotes are kept, only rounded
FloorRecentres ==
    /\ FloorCase(TRUE) => ret.val = Recentred
    /\ FloorCase(FALSE) =>
          ret.val = round_quotes(get_mid_price(bids, asks),
                        apply_inventory_constraints(Self, call.args[1], call.args[2]))

----------------------------------------------------------------------------
\* the display thread leaves lines 55-58 of get_mid_price
ReaderReturns == disp_pc = "best" /\ disp_pc' # "best"

\* the reader goes on to line 433 with the mid-price of a two-sided book
ReadSucceeds ==
    ReaderReturns =>
        /\ disp_pc' = "quotes"
        /\ shown'.mid_price > 0

\* C24: under every interleaving of OrderBook.update on the order-book thread
\* with get_mid_price called from the display thread, the reader does not fail
\* and returns a value
ReaderNeverFails == [][ReadSucceeds]_vars

----------------------------------------------------------------------------
\* once the flag is cleared a step leaves it cleared, refreshes no quote and
\* applies no fill
StoppedStep ==
    ~running =>
        /\ ~running'
        /\ current_bid_price' = current_bid_price
        /\ current_ask_price' = current_ask_price
        /\ quote_history' = quote_history
        /\ cash' = cash
        /\ inventory' = inventory
        /\ trading_history' = trading_history

\* C25: STOPPED is terminal: once a stop signal has cleared the running flag it
\* is never set again, and no order-book message processed afterwards refreshes
\* the quotes or applies a fill to the ledger
StoppedIsTerminal == [][StoppedStep]_vars

----------------------------------------------------------------------------
\* the initial inventory lies strictly inside the suppression thresholds and
\* an order is at most a fifth of max_inventory
StartsInsideLimit(p) ==
    /\ -8 * p.max_inventory < 10 * p.initial_inventory
    /\ 10 * p.initial_inventory < 8 * p.max_inventory
    /\ IsNumber(p.order_size)
    /\ 0 < p.order_size
    /\ 5 * p.order_size <= p.max_inventory

\* C26: inventory stays within the configured limit: from an initial inventory
\* strictly between -0.8*max_inventory and 0.8*max_inventory, with
\* 0 < order_size <= 0.2*max_inventory, after any sequence of ticks
\* -0.8*max_inventory - order_size < inventory < 0.8*max_inventory + order_size,
\* hence |inventory| never exceeds max_inventory
InventoryWithinLimit ==
    StartsInsideLimit(params) =>
        /\ -8 * params.max_inventory - 10 * params.order_size < 10 * inventory
        /\ 10 * inventory < 8 * params.max_inventory + 10 * params.order_size
        /\ Abs(inventory) <= params.max_inventory

\* a buy took the inventory to the threshold 0.8*max_inventory, and a tick
\* after it filled nothing
WitnessInventoryWithinLimit ==
    /\ StartsInsideLimit(params)
    /\ call.op = "on_order_book_message"
    /\ received = 2
    /\ processed(call.args[1])
    /\ 10 * inventory = 8 * params.max_inventory
    /\ Len(trading_history) = 1
    /\ trading_history[1].side = "buy"
    /\ current_bid_price = 0

----------------------------------------------------------------------------
\* the tick quoted a sentinel on some side: bid 0 or ask +infinity
SentinelTick ==
    /\ Tick
    /\ processed(call'.args[1])
    /\ current_bid_price' = 0 \/ current_ask_price' = Inf

\* the tick began with the inventory at or past a suppression threshold
SaturatedTick ==
    /\ Tick
    /\ \/ 10 * inventory >= 8 * params.max_inventory
       \/ 10 * inventory <= -8 * params.max_inventory

\* the tick drew no arrival and applied no fill
NothingFilled ==
    /\ BidDraw = [rate |-> NoRates.sell, count |-> 0]
    /\ AskDraw = [rate |-> NoRates.buy, count |-> 0]
    /\ cash' = cash
    /\ inventory' = inventory
    /\ trading_history' = trading_history
    /\ simulated_trades' = simulated_trades

\* a tick with a sentinel quote, and any tick from a saturated inventory on,
\* fills nothing
SentinelTickFillsNothing == (SentinelTick \/ SaturatedTick) => NothingFilled

\* C27: in a tick where either quote is a sentinel _simulate_trades returns
\* before drawing arrivals, so no fill occurs on either side, the quoted side
\* included; so once inventory >= 0.8*max_inventory (or <= -0.8*max_inventory)
\* at the start of a tick, inventory, cash and trading_history never change
\* again
SuppressionHaltsFills == [][SentinelTickFillsNothing]_vars

\* a sell took the inventory down to -0.8*max_inventory; the next tick quoted
\* a bid and no ask, and filled nothing
WitnessSuppressionHaltsFills ==
    /\ call.op = "on_order_book_message"
    /\ received = 2
    /\ processed(call.args[1])
    /\ 10 * inventory = -8 * params.max_inventory
    /\ current_ask_price = Inf
    /\ current_bid_price > 0
    /\ Len(trading_history) = 1
    /\ trading_history[1].side = "sell"

----------------------------------------------------------------------------
\* gamma*sigma^2*t + 2*ln(1 + gamma/k)/gamma in price units
TwoSidedSpread(p, remaining_time, sigma) ==
    2 * p.gamma * sigma * sigma * remaining_time + 2 * LogTerm(p.gamma, p.k)

\* the bid spread followed by the ask spread at the same inventory, time and
\* sigma: they add up to the two-sided spread, which is positive
SumStep ==
    (/\ call.op = "optimal_bid_spread"
     /\ call'.op = "optimal_ask_spread"
     /\ call'.args = call.args)
    => /\ ret.val + ret'.val = TwoSidedSpread(params, call.args[2], call.args[3])
       /\ ret.val + ret'.val > 0

\* C28: the raw two-sided spread does not depend on inventory: for every q,
\* optimal_bid_spread(q, t, sigma) + optimal_ask_spread(q, t, sigma) =
\* gamma*sigma^2*t + 2*ln(1 + gamma/k)/gamma, strictly positive, so the raw
\* quotes mid - bid_spread and mid + ask_spread are never crossed and inventory
\* only shifts their centre
TwoSidedSpreadFixed == [][SumStep]_vars

\* at a long inventory the ask spread is negative (the ask lies below mid) and
\* the bid spread exceeds it by more: the pair is shifted, not crossed
WitnessTwoSidedSpreadFixed ==
    /\ call.op = "optimal_ask_spread"
    /\ call.args[1] > 0
    /\ ret.val < 0
    /\ ret.val + optimal_bid_spread(Self, call.args[1], call.args[2], call.args[3])
          = TwoSidedSpread(params, call.args[2], call.args[3])
    /\ optimal_bid_spread(Self, call.args[1], call.args[2], call.args[3])
          # optimal_bid_spread(Self, 0, call.args[2], call.args[3])

----------------------------------------------------------------------------
\* record i is a fill at a strictly positive, finite price
PositivePrice(i) ==
    /\ trading_history'[i].price > 0
    /\ trading_history'[i].price < Inf

\* every record a tick appends, at a positive mid-price and with valid
\* parameters, has a positive finite price; a buy does not add to cash
TickFillsAtPositivePrice ==
    (Tick /\ ValidParams(params) /\ TickMid > 0) =>
        /\ \A i \in NewRecords : PositivePrice(i)
        /\ NewSide("sell") = {} => cash' <= cash

\* C29: every fill recorded by _simulate_trades has a strictly positive, finite
\* price: for every positive mid-price, inventory and valid parameter set a
\* buy is never recorded at a bid <= 0 and a sell never at an ask <= 0 or
\* +infinity, so a buy never increases cash
FillsAtPositivePrice == [][TickFillsAtPositivePrice]_vars

\* a quote stays on its side of mid
SameSide(mid_price, raw, throttled) ==
    /\ raw < mid_price => throttled < mid_price
    /\ raw > mid_price => throttled > mid_price
    /\ raw = mid_price => throttled = mid_price

\* a factor <<numerator, denominator>> lies in (0.2, 0.5]
InFactorRange(f) ==
    /\ f[2] > 0
    /\ 10 * f[1] > 2 * f[2]
    /\ 2 * f[1] <= f[2]

\* a price that is a number: no sentinel, nothing beyond the sentinels
FinitePrice(price) == -Inf < price /\ price < Inf

\* C30: whenever apply_inventory_constraints divides by inventory_factor (the
\* bid's band, the ask's band) the factor lies in (0.2, 0.5], and the throttled
\* quote is finite and on the same side of mid as the raw quote
FactorBoundedAwayFromZero ==
    ConstraintsReturned =>
        LET mid_price == get_mid_price(bids, asks)
        IN /\ BidThrottled =>
                /\ InFactorRange(bid_inventory_factor(Self))
                /\ FinitePrice(ret.val[1])
                /\ SameSide(mid_price, call.args[1], ret.val[1])
           /\ AskThrottled =>
                /\ InFactorRange(ask_inventory_factor(Self))
                /\ FinitePrice(ret.val[2])
                /\ SameSide(mid_price, call.args[2], ret.val[2])

\* a long inventory at exactly half the limit, the bid divided by the factor
\* 0.5: a raw bid below mid comes back twice as far below it
WitnessFactorBoundedAwayFromZero ==
    /\ ConstraintsReturned
    /\ BidThrottled
    /\ 2 * inventory = params.max_inventory
    /\ get_mid_price(bids, asks) > 0
    /\ call.args[1] < get_mid_price(bids, asks)
    /\ get_mid_price(bids, asks) - ret.val[1]
         = 2 * (get_mid_price(bids, asks) - call.args[1])

====
